---------------------------- MODULE Spec2Model ----------------------------
(***************************************************************************)
(* A model of the line-numbered BASIC interpreter of basic.go: the        *)
(* TokenReader, the expression and statement compilers, the evaluator,    *)
(* the program store and the Program / Run / Load / Save loops.           *)
(*                                                                         *)
(* Text is a sequence of one-character strings.  A Go string is modelled  *)
(* the same way, so "" is << >>.  Values are tagged records.  The program *)
(* store (a btree ordered by line number) is an ascending sequence of     *)
(* Line records.  W and ErrW hold what the most recent step wrote.        *)
(***************************************************************************)
EXTENDS Integers, Sequences, FiniteSets, TLC

VARIABLES tr, Vars, Code, W, ErrW, pc, ln, stk, line, fs

vars == <<tr, Vars, Code, W, ErrW, pc, ln, stk, line, fs>>

-----------------------------------------------------------------------------
(* Characters *)

UpperSeq == <<"A","B","C","D","E","F","G","H","I","J","K","L","M",
              "N","O","P","Q","R","S","T","U","V","W","X","Y","Z">>

LowerSeq == <<"a","b","c","d","e","f","g","h","i","j","k","l","m",
              "n","o","p","q","r","s","t","u","v","w","x","y","z">>

DigitSeq == <<"0","1","2","3","4","5","6","7","8","9">>

Range(f) == {f[i] : i \in DOMAIN f}

\* v evaluated once, and its value handed to F: a local variable's
\* assignment followed by the code that uses it.
Bind(v, F(_)) == CHOOSE y \in {F(x) : x \in {v}} : TRUE

UpperLetters == Range(UpperSeq)

LowerLetters == Range(LowerSeq)

DigitChars == Range(DigitSeq)

IsLetter(ch) == ch \in UpperLetters \/ ch \in LowerLetters

IsDigit(ch) == ch \in DigitChars

DigitVal(ch) == (CHOOSE i \in 1..10 : DigitSeq[i] = ch) - 1

ToUpper(ch) ==
    IF ch \in LowerLetters
    THEN UpperSeq[CHOOSE i \in 1..26 : LowerSeq[i] = ch]
    ELSE ch

NL == "\n"

\* The rune returned with eof = true (ReadRuneEOF returns 0): no character.
NoRune == "EOF"

-----------------------------------------------------------------------------
(* Token kinds *)

EndOfLine == "EndOfLine"

KeywordToken == "KeywordToken"

IntegerToken == "IntegerToken"

StringToken == "StringToken"

OperatorToken == "OperatorToken"

-----------------------------------------------------------------------------
(* TokenReader.  R is the stream: buf with pos characters consumed.       *)
(* fatal records that ReadRune met end of input and ended the process;    *)
(* hung records that a loop over the reader can make no progress.         *)

NewTokenReader(text) ==
    [buf |-> text, pos |-> 0, AtEOL |-> FALSE, peeked |-> FALSE,
     t |-> EndOfLine, n |-> 0, s |-> << >>, fatal |-> FALSE,
     hung |-> FALSE]

ReadRuneEOF(r) ==
    IF r.pos >= Len(r.buf)
    THEN [ch |-> NoRune, eof |-> TRUE, tr |-> r]
    ELSE [ch |-> r.buf[r.pos + 1], eof |-> FALSE,
          tr |-> [r EXCEPT !.pos = r.pos + 1]]

ReadRune(r) ==
    Bind(ReadRuneEOF(r), LAMBDA x :
        IF x.eof
        THEN [ch |-> NoRune, tr |-> [r EXCEPT !.fatal = TRUE]]
        ELSE [ch |-> x.ch, tr |-> x.tr])

UnreadRune(r) == IF r.pos > 0 THEN [r EXCEPT !.pos = r.pos - 1] ELSE r

Tok(t, n, s, r) == [t |-> t, n |-> n, s |-> s, tr |-> r]

\* for { ch = tr.ReadRune(); if ch != ' ' { break } }
RECURSIVE SkipSpaces(_)
SkipSpaces(r) ==
    Bind(ReadRune(r), LAMBDA x :
        IF x.ch = " " /\ ~x.tr.fatal THEN SkipSpaces(x.tr) ELSE x)

\* for ch != '\n' { ch = tr.ReadRune() }
RECURSIVE SkipComment(_)
SkipComment(r) ==
    Bind(ReadRune(r), LAMBDA x :
        IF x.ch = NL \/ x.tr.fatal THEN x.tr ELSE SkipComment(x.tr))

\* The loop that collects a keyword after its first letter.
RECURSIVE ReadKeyword(_, _)
ReadKeyword(r, kw) ==
    Bind(ReadRune(r), LAMBDA x :
        IF x.tr.fatal THEN [kw |-> kw, tr |-> x.tr]
        ELSE IF IsLetter(x.ch) THEN ReadKeyword(x.tr, Append(kw, x.ch))
        ELSE IF x.ch = "$" \/ x.ch = "%"
             THEN [kw |-> Append(kw, x.ch), tr |-> x.tr]
        ELSE [kw |-> kw, tr |-> UnreadRune(x.tr)])

\* for ch >= '0' && ch <= '9' { n = n*10 + digit; ch = tr.ReadRune() }
RECURSIVE ReadInteger(_, _, _)
ReadInteger(r, ch, n) ==
    IF IsDigit(ch)
    THEN Bind(ReadRune(r), LAMBDA x :
             IF x.tr.fatal THEN [n |-> n * 10 + DigitVal(ch), tr |-> x.tr]
             ELSE ReadInteger(x.tr, x.ch, n * 10 + DigitVal(ch)))
    ELSE [n |-> n, tr |-> UnreadRune(r)]

\* The loop that collects a string literal after its opening quote.
RECURSIVE ReadString(_, _)
ReadString(r, s) ==
    Bind(ReadRune(r), LAMBDA x :
        IF x.tr.fatal \/ x.ch = "\"" THEN [s |-> s, tr |-> x.tr]
        ELSE ReadString(x.tr, Append(s, x.ch)))

SimpleOperators == {"-", "+", "*", "/", "(", ")", ",", "="}

\* '<': one more rune decides between "<=", "<>" and "<".
ScanLess(r) ==
    Bind(ReadRune(r), LAMBDA x :
        IF x.tr.fatal THEN Tok(OperatorToken, 0, <<"<">>, x.tr)
        ELSE IF x.ch = "=" THEN Tok(OperatorToken, 0, <<"<", "=">>, x.tr)
        ELSE IF x.ch = ">" THEN Tok(OperatorToken, 0, <<"<", ">">>, x.tr)
        ELSE Tok(OperatorToken, 0, <<"<">>, UnreadRune(x.tr)))

\* '>': the code tests ch, which still holds '>', against '=' and then
\* unreads the '>' itself.
ScanGreater(r, ch) ==
    IF ch = "=" THEN Tok(OperatorToken, 0, <<">", "=">>, r)
    ELSE Tok(OperatorToken, 0, <<">">>, UnreadRune(r))

ScanKeyword(r, ch) ==
    Bind(ReadKeyword(r, <<ch>>), LAMBDA k :
        Tok(KeywordToken, 0, [i \in 1..Len(k.kw) |-> ToUpper(k.kw[i])], k.tr))

ScanInteger(r, ch) ==
    Bind(ReadInteger(r, ch, 0), LAMBDA k : Tok(IntegerToken, k.n, << >>, k.tr))

ScanString(r) ==
    Bind(ReadString(r, << >>), LAMBDA k : Tok(StringToken, 0, k.s, k.tr))

\* The outer for loop of ReadToken: a rune that starts no token is skipped.
RECURSIVE ScanToken(_)
ScanToken(r) ==
    Bind(SkipSpaces(r), LAMBDA x :
        IF x.tr.fatal THEN Tok(EndOfLine, 0, << >>, x.tr)
        ELSE IF x.ch = NL
             THEN Tok(EndOfLine, 0, << >>, [x.tr EXCEPT !.AtEOL = TRUE])
        ELSE IF x.ch = "'"
             THEN Tok(EndOfLine, 0, << >>,
                      [SkipComment(x.tr) EXCEPT !.AtEOL = TRUE])
        ELSE IF IsLetter(x.ch) THEN ScanKeyword(x.tr, x.ch)
        ELSE IF IsDigit(x.ch) THEN ScanInteger(x.tr, x.ch)
        ELSE IF x.ch \in SimpleOperators
             THEN Tok(OperatorToken, 0, <<x.ch>>, x.tr)
        ELSE IF x.ch = "<" THEN ScanLess(x.tr)
        ELSE IF x.ch = ">" THEN ScanGreater(x.tr, x.ch)
        ELSE IF x.ch = "\"" THEN ScanString(x.tr)
        ELSE ScanToken(x.tr))

ReadToken(r) ==
    IF r.peeked
    THEN Tok(r.t, r.n, r.s, [r EXCEPT !.peeked = FALSE])
    ELSE ScanToken([r EXCEPT !.AtEOL = FALSE])

PeekToken(r) ==
    IF r.peeked
    THEN Tok(r.t, r.n, r.s, r)
    ELSE Bind(ReadToken(r), LAMBDA x :
             Tok(x.t, x.n, x.s,
                 [x.tr EXCEPT !.t = x.t, !.n = x.n, !.s = x.s,
                              !.peeked = TRUE]))

\* Basic.Error's drain loop: for !tr.AtEOL { tr.ReadToken() }.  A ReadToken
\* that leaves the reader as it found it repeats forever.
RECURSIVE Drain(_)
Drain(r) ==
    IF r.AtEOL \/ r.fatal THEN r
    ELSE Bind(ReadToken(r), LAMBDA x :
             IF x.tr = r THEN [r EXCEPT !.hung = TRUE] ELSE Drain(x.tr))

Stopped(r) == r.fatal \/ r.hung

-----------------------------------------------------------------------------
(* Values: the dynamic type of interface{} is the tag. *)

IntVal(n) == [tag |-> "int", n |-> n, s |-> << >>, b |-> FALSE]

StrVal(s) == [tag |-> "string", n |-> 0, s |-> s, b |-> FALSE]

BoolVal(b) == [tag |-> "bool", n |-> 0, s |-> << >>, b |-> b]

NilVal == [tag |-> "nil", n |-> 0, s |-> << >>, b |-> FALSE]

(* Expressions *)

ValueExpr(v) == [k |-> "ValueExpr", Value |-> v]

VarExpr(name) == [k |-> "VarExpr", Name |-> name]

NegateExpr(e) == [k |-> "NegateExpr", Expr |-> e]

BinaryExpr(name, l, r) ==
    [k |-> "BinaryExpr", Name |-> name, Left |-> l, Right |-> r]

\* Byte order of the characters, for the string comparisons.
AsciiSeq == <<NL, " ", "!", "\"", "$", "%", "'", "(", ")", "*", "+", ",",
              "-", ".", "/">> \o DigitSeq \o <<":", ";", "<", "=", ">", "?">>
            \o UpperSeq \o LowerSeq

Ord(ch) == CHOOSE i \in 1..Len(AsciiSeq) : AsciiSeq[i] = ch

RECURSIVE StrLess(_, _)
StrLess(s1, s2) ==
    IF s2 = << >> THEN FALSE
    ELSE IF s1 = << >> THEN TRUE
    ELSE IF Head(s1) = Head(s2) THEN StrLess(Tail(s1), Tail(s2))
    ELSE Ord(Head(s1)) < Ord(Head(s2))

Abs(n) == IF n < 0 THEN -n ELSE n

\* Go's n1 / n2 for n2 # 0: the quotient truncated toward zero.
Quot(n1, n2) ==
    IF (n1 >= 0) = (n2 > 0)
    THEN Abs(n1) \div Abs(n2)
    ELSE -(Abs(n1) \div Abs(n2))

OpPlus == <<"+">>

OpMinus == <<"-">>

OpTimes == <<"*">>

OpDivide == <<"/">>

OpEq == <<"=">>

OpNe == <<"<", ">">>

OpLt == <<"<">>

OpLe == <<"<", "=">>

OpGt == <<">">>

OpGe == <<">", "=">>

\* The keys of the BinaryOps map.
BinaryOpNames ==
    {OpPlus, OpMinus, OpTimes, OpDivide, OpEq, OpNe, OpLt, OpLe, OpGt, OpGe}

\* Only + is defined for strings among the arithmetic operators.
HasStringFunc(name) == name \notin {OpMinus, OpTimes, OpDivide}

HasIntegerFunc(name) == name \in BinaryOpNames

EvalResult(ok, val, msg, panic) ==
    [ok |-> ok, val |-> val, msg |-> msg, panic |-> panic]

EvalOk(val) == EvalResult(TRUE, val, << >>, FALSE)

\* A line written to ErrW: the format and the text of its %s argument.
Msg(text) == [fmt |-> text, arg |-> << >>]

MsgArg(text, arg) == [fmt |-> text, arg |-> arg]

EvalFail(msg) == EvalResult(FALSE, NilVal, <<msg>>, FALSE)

\* A Go run-time panic: the call does not return.
EvalPanic == EvalResult(FALSE, NilVal, << >>, TRUE)

\* n1 / n2 with n2 = 0 is Go's integer division by zero.
DivideFunc(n1, n2) ==
    IF n2 = 0 THEN EvalPanic ELSE EvalOk(IntVal(Quot(n1, n2)))

IntegerFunc(name, n1, n2) ==
    IF name = OpPlus THEN EvalOk(IntVal(n1 + n2))
    ELSE IF name = OpMinus THEN EvalOk(IntVal(n1 - n2))
    ELSE IF name = OpTimes THEN EvalOk(IntVal(n1 * n2))
    ELSE IF name = OpDivide THEN DivideFunc(n1, n2)
    ELSE IF name = OpEq THEN EvalOk(BoolVal(n1 = n2))
    ELSE IF name = OpNe THEN EvalOk(BoolVal(n1 # n2))
    ELSE IF name = OpLt THEN EvalOk(BoolVal(n1 < n2))
    ELSE IF name = OpLe THEN EvalOk(BoolVal(n1 <= n2))
    ELSE IF name = OpGt THEN EvalOk(BoolVal(n1 > n2))
    ELSE EvalOk(BoolVal(n1 >= n2))

StringFunc(name, s1, s2) ==
    IF name = OpPlus THEN EvalOk(StrVal(s1 \o s2))
    ELSE IF name = OpEq THEN EvalOk(BoolVal(s1 = s2))
    ELSE IF name = OpNe THEN EvalOk(BoolVal(s1 # s2))
    ELSE IF name = OpLt THEN EvalOk(BoolVal(StrLess(s1, s2)))
    ELSE IF name = OpLe THEN EvalOk(BoolVal(~StrLess(s2, s1)))
    ELSE IF name = OpGt THEN EvalOk(BoolVal(StrLess(s2, s1)))
    ELSE EvalOk(BoolVal(~StrLess(s1, s2)))

BinaryEval(name, val1, val2) ==
    IF val1.tag = "int"
    THEN IF ~HasIntegerFunc(name)
         THEN EvalFail(MsgArg("basic: error: %s does not work for integers",
                              name))
         ELSE IF val2.tag # "int"
         THEN EvalFail(Msg("basic: error: expected an integer value"))
         ELSE IntegerFunc(name, val1.n, val2.n)
    ELSE IF val1.tag = "string"
    THEN IF ~HasStringFunc(name)
         THEN EvalFail(MsgArg("basic: error: %s does not work for strings",
                              name))
         ELSE IF val2.tag # "string"
         THEN EvalFail(Msg("basic: error: expected a string value"))
         ELSE StringFunc(name, val1.s, val2.s)
    ELSE IF val1.tag = "bool"
    THEN EvalFail(MsgArg("basic: error: %s does not work for booleans", name))
    ELSE EvalPanic

NegateEval(val) ==
    IF val.tag # "int"
    THEN EvalFail(Msg("basic: error: expected an integer value"))
    ELSE EvalOk(IntVal(-val.n))

VarEval(name, vs) ==
    IF name \notin DOMAIN vs
    THEN EvalFail(MsgArg("basic: error: variable not found: %s", name))
    ELSE EvalOk(vs[name])

\* Expr.Eval against the variable mapping vs.
RECURSIVE Eval(_, _)
Eval(e, vs) ==
    IF e.k = "ValueExpr" THEN EvalOk(e.Value)
    ELSE IF e.k = "VarExpr" THEN VarEval(e.Name, vs)
    ELSE IF e.k = "NegateExpr"
    THEN Bind(Eval(e.Expr, vs), LAMBDA x :
             IF ~x.ok THEN x ELSE NegateEval(x.val))
    ELSE IF e.k = "BinaryExpr"
    THEN Bind(Eval(e.Left, vs), LAMBDA x1 :
             IF ~x1.ok THEN x1
             ELSE Bind(Eval(e.Right, vs), LAMBDA x2 :
                      IF ~x2.ok THEN x2
                      ELSE BinaryEval(e.Name, x1.val, x2.val)))
    ELSE EvalPanic

-----------------------------------------------------------------------------
(* Rendering: String() and Print(w) *)

\* fmt's %d
RECURSIVE Digits(_)
Digits(n) ==
    IF n < 10 THEN <<DigitSeq[n + 1]>>
    ELSE Append(Digits(n \div 10), DigitSeq[(n % 10) + 1])

Itoa(n) == IF n < 0 THEN <<"-">> \o Digits(-n) ELSE Digits(n)

TextTRUE == <<"T", "R", "U", "E">>

TextFALSE == <<"F", "A", "L", "S", "E">>

ValueString(v) ==
    IF v.tag = "int" THEN Itoa(v.n)
    ELSE IF v.tag = "string" THEN v.s
    ELSE IF v.b THEN TextTRUE ELSE TextFALSE

ValuePrint(v) ==
    IF v.tag = "int" THEN Itoa(v.n)
    ELSE IF v.tag = "string" THEN <<"\"">> \o v.s \o <<"\"">>
    ELSE IF v.b THEN TextTRUE ELSE TextFALSE

\* Expr.String()
RECURSIVE ExprString(_)
ExprString(e) ==
    IF e.k = "ValueExpr" THEN ValueString(e.Value)
    ELSE IF e.k = "VarExpr" THEN e.Name
    ELSE IF e.k = "NegateExpr" THEN <<"-", " ">> \o ExprString(e.Expr)
    ELSE ExprString(e.Left) \o <<" ">> \o e.Name \o <<" ">>
         \o ExprString(e.Right)

\* Expr.Print(w): the operands of - and of a binary operator go through %s,
\* that is through String().
ExprPrint(e) ==
    IF e.k = "ValueExpr" THEN ValuePrint(e.Value)
    ELSE IF e.k = "VarExpr" THEN e.Name
    ELSE IF e.k = "NegateExpr" THEN <<"-", " ">> \o ExprString(e.Expr)
    ELSE ExprString(e.Left) \o <<" ">> \o e.Name \o <<" ">>
         \o ExprString(e.Right)

-----------------------------------------------------------------------------
(* Keywords, as the scanner returns them *)

KwEND == <<"E", "N", "D">>

KwFOR == <<"F", "O", "R">>

KwNEXT == <<"N", "E", "X", "T">>

KwGOSUB == <<"G", "O", "S", "U", "B">>

KwRETURN == <<"R", "E", "T", "U", "R", "N">>

KwGOTO == <<"G", "O", "T", "O">>

KwIF == <<"I", "F">>

KwTHEN == <<"T", "H", "E", "N">>

KwELSE == <<"E", "L", "S", "E">>

KwINPUT == <<"I", "N", "P", "U", "T">>

KwPRINT == <<"P", "R", "I", "N", "T">>

KwREM == <<"R", "E", "M">>

KwWHILE == <<"W", "H", "I", "L", "E">>

KwWEND == <<"W", "E", "N", "D">>

KwDELETE == <<"D", "E", "L", "E", "T", "E">>

KwEXIT == <<"E", "X", "I", "T">>

KwHELP == <<"H", "E", "L", "P">>

KwLIST == <<"L", "I", "S", "T">>

KwLOAD == <<"L", "O", "A", "D">>

KwNEW == <<"N", "E", "W">>

KwRUN == <<"R", "U", "N">>

KwSAVE == <<"S", "A", "V", "E">>

-----------------------------------------------------------------------------
(* Statements *)

EndStmt == [k |-> "EndStmt"]

GoSubStmt(n) == [k |-> "GoSubStmt", n |-> n]

ReturnStmt == [k |-> "ReturnStmt"]

GotoStmt(n) == [k |-> "GotoStmt", n |-> n]

RemStmt(s) == [k |-> "RemStmt", s |-> s]

AssignStmt(v, e) == [k |-> "AssignStmt", Var |-> v, Expr |-> e]

PrintStmt(exprs) == [k |-> "PrintStmt", exprs |-> exprs]

IfThenStmt(test, then, els) ==
    [k |-> "IfThenStmt", Test |-> test, Then |-> then, Else |-> els]

IfGotoStmt(test, n) == [k |-> "IfGotoStmt", Test |-> test, Number |-> n]

\* The nil Stmt: an interface value that holds no statement.
NilStmt == [k |-> "nil"]

GoSubCtx == 0

Ctx(type, number) == [Type |-> type, Number |-> number]

\* What Execute hands back: the next line, the stack, and what it did to the
\* variables and the two writers.  panic: the call did not return.
ExecResult(n, st, vs, w, errw, panic) ==
    [ln |-> n, stk |-> st, Vars |-> vs, W |-> w, ErrW |-> errw,
     panic |-> panic]

ExecPanic(st, vs, w) == ExecResult(-1, st, vs, w, << >>, TRUE)

ExecFail(st, vs, w, x) ==
    IF x.panic THEN ExecPanic(st, vs, w)
    ELSE ExecResult(-1, st, vs, w, x.msg, FALSE)

GoSubExecute(target, n, st, vs) ==
    ExecResult(target, Append(st, Ctx(GoSubCtx, n)), vs, << >>, << >>, FALSE)

\* A RETURN that goes back to the line of the call itself.
ReturnToCall(st, vs) ==
    IF Len(st) > 0
    THEN ExecResult(st[Len(st)].Number, SubSeq(st, 1, Len(st) - 1),
                    vs, << >>, << >>, FALSE)
    ELSE ExecResult(-1, st, vs, << >>,
                    <<Msg("basic: error: RETURN without a GOSUB")>>, FALSE)

\* A RETURN that says nothing when there is no frame.
ReturnSilent(st, vs) ==
    IF Len(st) > 0
    THEN ExecResult(st[Len(st)].Number + 1, SubSeq(st, 1, Len(st) - 1),
                    vs, << >>, << >>, FALSE)
    ELSE ExecResult(-1, st, vs, << >>, << >>, FALSE)

\* for len(stk) > 0 { pop; if ctx.Type == GoSubCtx { return ctx.Number + 1 } }
RECURSIVE ReturnExecute(_, _)
ReturnExecute(st, vs) ==
    IF Len(st) > 0
    THEN IF st[Len(st)].Type = GoSubCtx
         THEN ExecResult(st[Len(st)].Number + 1, SubSeq(st, 1, Len(st) - 1),
                         vs, << >>, << >>, FALSE)
         ELSE ReturnExecute(SubSeq(st, 1, Len(st) - 1), vs)
    ELSE ExecResult(-1, st, vs, << >>,
                    <<Msg("basic: error: RETURN without a GOSUB")>>, FALSE)

\* b.Vars[name] = val
Store(vs, name, val) ==
    [v \in DOMAIN vs \cup {name} |-> IF v = name THEN val ELSE vs[v]]

\* as.Var[len(as.Var)-1]
Suffix(name) == name[Len(name)]

\* An assignment that stores the value whatever its tag.
AssignUnchecked(stmt, n, st, vs) ==
    Bind(Eval(stmt.Expr, vs), LAMBDA x :
        IF ~x.ok THEN ExecFail(st, vs, << >>, x)
        ELSE ExecResult(n + 1, st, Store(vs, stmt.Var, x.val),
                        << >>, << >>, FALSE))

AssignExecute(stmt, n, st, vs) ==
    Bind(Eval(stmt.Expr, vs), LAMBDA x :
        IF ~x.ok THEN ExecFail(st, vs, << >>, x)
        ELSE IF Suffix(stmt.Var) = "$" /\ x.val.tag # "string"
        THEN ExecResult(-1, st, vs, << >>,
                        <<Msg("basic: error: expected a string value")>>,
                        FALSE)
        ELSE IF Suffix(stmt.Var) = "%" /\ x.val.tag # "int"
        THEN ExecResult(-1, st, vs, << >>,
                        <<Msg("basic: error: expected an integer value")>>,
                        FALSE)
        ELSE IF Suffix(stmt.Var) \notin {"$", "%"}
        THEN ExecPanic(st, vs, << >>)
        ELSE ExecResult(n + 1, st, Store(vs, stmt.Var, x.val),
                        << >>, << >>, FALSE))

\* The loop of PrintStmt.Execute from expression i on, w written so far.
RECURSIVE PrintExecute(_, _, _, _, _, _)
PrintExecute(exprs, i, w, n, st, vs) ==
    IF i > Len(exprs)
    THEN ExecResult(n + 1, st, vs, Append(w, NL), << >>, FALSE)
    ELSE Bind(IF i > 1 THEN w \o <<",", " ">> ELSE w, LAMBDA w1 :
         Bind(Eval(exprs[i], vs), LAMBDA x :
             IF ~x.ok THEN ExecFail(st, vs, w1, x)
             ELSE PrintExecute(exprs, i + 1, w1 \o ValueString(x.val),
                               n, st, vs)))

\* The test of IF: evaluated, and required to be a boolean.  The failure is
\* the statement's result; otherwise ln is 1 for true and 2 for false.
TestEval(test, st, vs) ==
    Bind(Eval(test, vs), LAMBDA x :
        IF ~x.ok THEN ExecFail(st, vs, << >>, x)
        ELSE IF x.val.tag # "bool"
        THEN ExecResult(-1, st, vs, << >>,
                 <<Msg("basic: error: expected a boolean value")>>, FALSE)
        ELSE ExecResult(IF x.val.b THEN 1 ELSE 2, st, vs, << >>, << >>,
                        FALSE))

\* Stmt.Execute(b, ln, stk)
RECURSIVE Execute(_, _, _, _)
Execute(stmt, n, st, vs) ==
    IF stmt.k = "EndStmt"
    THEN ExecResult(-1, st, vs, << >>, << >>, FALSE)
    ELSE IF stmt.k = "GoSubStmt" THEN GoSubExecute(stmt.n, n, st, vs)
    ELSE IF stmt.k = "ReturnStmt" THEN ReturnExecute(st, vs)
    ELSE IF stmt.k = "GotoStmt"
    THEN ExecResult(stmt.n, st, vs, << >>, << >>, FALSE)
    ELSE IF stmt.k = "RemStmt"
    THEN ExecResult(n + 1, st, vs, << >>, << >>, FALSE)
    ELSE IF stmt.k = "AssignStmt" THEN AssignExecute(stmt, n, st, vs)
    ELSE IF stmt.k = "PrintStmt"
    THEN PrintExecute(stmt.exprs, 1, << >>, n, st, vs)
    ELSE IF stmt.k = "IfThenStmt"
    THEN Bind(TestEval(stmt.Test, st, vs), LAMBDA x :
             IF x.ln <= 0 THEN x
             ELSE IF x.ln = 1 THEN Execute(stmt.Then, n, st, vs)
             ELSE IF stmt.Else # NilStmt THEN Execute(stmt.Else, n, st, vs)
             ELSE ExecResult(n + 1, st, vs, << >>, << >>, FALSE))
    ELSE IF stmt.k = "IfGotoStmt"
    THEN Bind(TestEval(stmt.Test, st, vs), LAMBDA x :
             IF x.ln <= 0 THEN x
             ELSE IF x.ln = 1
             THEN ExecResult(stmt.Number, st, vs, << >>, << >>, FALSE)
             ELSE ExecResult(n + 1, st, vs, << >>, << >>, FALSE))
    ELSE ExecPanic(st, vs, << >>)

\* The loop of PrintStmt.Print from expression i on.
RECURSIVE PrintList(_, _)
PrintList(exprs, i) ==
    IF i > Len(exprs) THEN << >>
    ELSE (IF i > 1 THEN <<",", " ">> ELSE << >>)
         \o ExprPrint(exprs[i]) \o PrintList(exprs, i + 1)

\* Print on this statement calls a method of a nil Stmt.
RECURSIVE PrintPanics(_)
PrintPanics(stmt) ==
    IF stmt.k = "nil" THEN TRUE
    ELSE IF stmt.k = "IfThenStmt"
    THEN PrintPanics(stmt.Then)
         \/ (stmt.Else # NilStmt /\ PrintPanics(stmt.Else))
    ELSE FALSE

\* Stmt.Print(w).  A nil statement has no Print to call: what was written
\* before the call is all there is.
RECURSIVE StmtPrint(_)
StmtPrint(stmt) ==
    IF stmt.k = "EndStmt" THEN KwEND
    ELSE IF stmt.k = "GoSubStmt" THEN KwGOSUB \o <<" ">> \o Itoa(stmt.n)
    ELSE IF stmt.k = "ReturnStmt" THEN KwRETURN
    ELSE IF stmt.k = "GotoStmt" THEN KwGOTO \o <<" ">> \o Itoa(stmt.n)
    ELSE IF stmt.k = "RemStmt" THEN KwREM \o <<" ">> \o stmt.s
    ELSE IF stmt.k = "AssignStmt"
    THEN stmt.Var \o <<" ", "=", " ">> \o ExprPrint(stmt.Expr)
    ELSE IF stmt.k = "PrintStmt"
    THEN KwPRINT \o <<" ">> \o PrintList(stmt.exprs, 1)
    ELSE IF stmt.k = "IfThenStmt"
    THEN KwIF \o <<" ">> \o ExprString(stmt.Test) \o <<" ">> \o KwTHEN
         \o <<" ">> \o StmtPrint(stmt.Then)
         \o (IF stmt.Else # NilStmt /\ ~PrintPanics(stmt.Then)
             THEN <<" ">> \o KwELSE \o <<" ">> \o StmtPrint(stmt.Else)
             ELSE << >>)
    ELSE IF stmt.k = "IfGotoStmt"
    THEN KwIF \o <<" ">> \o ExprString(stmt.Test) \o <<" ">> \o KwGOTO
         \o <<" ">> \o Itoa(stmt.Number)
    ELSE << >>

-----------------------------------------------------------------------------
(* The compilers.  A result is (value, ok) with the reader as it was left *)
(* and the line Basic.Error wrote, if it was called.                      *)

CompOk(v, r) == [ok |-> TRUE, v |-> v, tr |-> r, msg |-> << >>]

\* Basic.Error followed by return nil, false
Error(r, msg) == [ok |-> FALSE, v |-> NilStmt, tr |-> Drain(r), msg |-> <<msg>>]

\* The checks that follow a recursive compile: if !ok { return nil, false }
Then(c, F(_)) == Bind(c, LAMBDA x : IF ~x.ok THEN x ELSE F(x))

\* t, _, s = tr.ReadToken(); if t != OperatorToken || s != ")" { b.Error }
CloseParen(e) ==
    Bind(ReadToken(e.tr), LAMBDA y :
        IF y.t # OperatorToken \/ y.s # <<")">>
        THEN Error(y.tr, Msg("basic: error: missing closing ) in expression"))
        ELSE CompOk(e.v, y.tr))

RECURSIVE CompileExpr(_)
\* The first half of CompileExpr: the operand before any binary operator.
CompilePrimary(r) ==
    Bind(ReadToken(r), LAMBDA x :
        IF x.t = IntegerToken THEN CompOk(ValueExpr(IntVal(x.n)), x.tr)
        ELSE IF x.t = StringToken THEN CompOk(ValueExpr(StrVal(x.s)), x.tr)
        ELSE IF x.t = KeywordToken THEN CompOk(VarExpr(x.s), x.tr)
        ELSE IF x.t = OperatorToken /\ x.s = <<"-">>
        THEN Then(CompileExpr(x.tr), LAMBDA e : CompOk(NegateExpr(e.v), e.tr))
        ELSE IF x.t = OperatorToken /\ x.s = <<"(">>
        THEN Then(CompileExpr(x.tr), CloseParen)
        ELSE Error(x.tr, Msg("basic: error: unexpected token in expression")))

\* A compiler that puts the operands of a binary operator the other way round.
CompileOperatorSwapped(p) ==
    Bind(PeekToken(p.tr), LAMBDA y :
        IF y.t = OperatorToken /\ y.s \in BinaryOpNames
        THEN Bind(ReadToken(y.tr), LAMBDA z :
                 Then(CompileExpr(z.tr), LAMBDA e2 :
                     CompOk(BinaryExpr(y.s, e2.v, p.v), e2.tr)))
        ELSE CompOk(p.v, y.tr))

\* The second half: t, _, s = tr.PeekToken() and the operator, if it is one.
CompileOperator(p) ==
    Bind(PeekToken(p.tr), LAMBDA y :
        IF y.t = OperatorToken /\ y.s \in BinaryOpNames
        THEN Bind(ReadToken(y.tr), LAMBDA z :
                 Then(CompileExpr(z.tr), LAMBDA e2 :
                     CompOk(BinaryExpr(y.s, p.v, e2.v), e2.tr)))
        ELSE CompOk(p.v, y.tr))

CompileExpr(r) == Then(CompilePrimary(r), CompileOperator)

\* REM: for { ch := tr.ReadRune(); if ch == '\n' { UnreadRune; break } ... }
RECURSIVE ReadRem(_, _)
ReadRem(r, s) ==
    Bind(ReadRune(r), LAMBDA x :
        IF x.tr.fatal THEN [s |-> s, tr |-> x.tr]
        ELSE IF x.ch = NL THEN [s |-> s, tr |-> UnreadRune(x.tr)]
        ELSE ReadRem(x.tr, Append(s, x.ch)))

\* The loop of the PRINT case, exprs compiled so far.
RECURSIVE CompilePrint(_, _)
CompilePrint(r, exprs) ==
    Then(CompileExpr(r), LAMBDA e :
        Bind(PeekToken(e.tr), LAMBDA y :
            IF y.t # OperatorToken \/ y.s # <<",">>
            THEN CompOk(PrintStmt(Append(exprs, e.v)), y.tr)
            ELSE Bind(ReadToken(y.tr), LAMBDA z :
                     CompilePrint(z.tr, Append(exprs, e.v)))))

\* The GOSUB, GOTO and IF ... GOTO cases read a line number.
CompileTarget(r, what) ==
    Bind(ReadToken(r), LAMBDA x :
        IF x.t # IntegerToken
        THEN Error(x.tr, MsgArg("basic: error: missing line number for %s",
                                what))
        ELSE CompOk(x.n, x.tr))

ReservedKeywords == {KwFOR, KwNEXT, KwINPUT, KwWHILE, KwWEND}

RECURSIVE CompileKeyword(_, _, _)
CompileStatement(r, full) ==
    Bind(ReadToken(r), LAMBDA x :
        IF x.t # KeywordToken
        THEN Error(x.tr,
          Msg("basic: error: statement must start with a keyword or variable"
              ))
        ELSE CompileKeyword(x.tr, x.s, full))

\* var els Stmt; t, _, s := tr.PeekToken(); if ELSE { els = ... }
CompileElse(e, then) ==
    Bind(PeekToken(then.tr), LAMBDA y :
        IF y.t = KeywordToken /\ y.s = KwELSE
        THEN Bind(ReadToken(y.tr), LAMBDA z :
                 Then(CompileStatement(z.tr, FALSE), LAMBDA els :
                     CompOk(IfThenStmt(e.v, then.v, els.v), els.tr)))
        ELSE CompOk(IfThenStmt(e.v, then.v, NilStmt), y.tr))

\* The IF case.
CompileIf(r) ==
    Then(CompileExpr(r), LAMBDA e :
        Bind(ReadToken(e.tr), LAMBDA x :
            IF x.t = KeywordToken /\ x.s = KwTHEN
            THEN Then(CompileStatement(x.tr, FALSE), LAMBDA then :
                     CompileElse(e, then))
            ELSE IF x.t = KeywordToken /\ x.s = KwGOTO
            THEN Then(CompileTarget(x.tr, <<"I", "F", " ">> \o KwGOTO),
                      LAMBDA n : CompOk(IfGotoStmt(e.v, n.v), n.tr))
            ELSE Error(x.tr,
              Msg("basic: error: expected IF followed by THEN or GOTO"))))

\* The default case: an assignment to a variable, or an unknown keyword.
CompileAssign(r, kw) ==
    IF kw[Len(kw)] = "$" \/ kw[Len(kw)] = "%"
    THEN Bind(ReadToken(r), LAMBDA x :
             IF x.t # OperatorToken \/ x.s # <<"=">>
             THEN Error(x.tr,
               Msg("basic: error: expected '=' following variable name"))
             ELSE Then(CompileExpr(x.tr), LAMBDA e :
                      CompOk(AssignStmt(kw, e.v), e.tr)))
    ELSE Error(r, MsgArg("basic: error: unknown keyword: %s", kw))

\* The switch of CompileKeyword.
CompileBody(r, kw) ==
    IF kw = KwEND THEN CompOk(EndStmt, r)
    ELSE IF kw \in ReservedKeywords THEN CompOk(NilStmt, r)
    ELSE IF kw = KwGOSUB
    THEN Then(CompileTarget(r, KwGOSUB), LAMBDA n :
             CompOk(GoSubStmt(n.v), n.tr))
    ELSE IF kw = KwRETURN THEN CompOk(ReturnStmt, r)
    ELSE IF kw = KwGOTO
    THEN Then(CompileTarget(r, KwGOTO), LAMBDA n :
             CompOk(GotoStmt(n.v), n.tr))
    ELSE IF kw = KwIF THEN CompileIf(r)
    ELSE IF kw = KwPRINT THEN CompilePrint(r, << >>)
    ELSE IF kw = KwREM
    THEN Bind(ReadRem(r, << >>), LAMBDA x : CompOk(RemStmt(x.s), x.tr))
    ELSE CompileAssign(r, kw)

\* if full { t, _, _ := tr.ReadToken(); if t != EndOfLine { b.Error } }
CompileKeyword(r, kw, full) ==
    Then(CompileBody(r, kw), LAMBDA b :
        IF ~full THEN b
        ELSE Bind(ReadToken(b.tr), LAMBDA x :
                 IF x.t # EndOfLine
                 THEN Error(x.tr,
                   MsgArg("basic: error: too many argument to keyword: %s",
                          kw))
                 ELSE CompOk(b.v, x.tr)))

-----------------------------------------------------------------------------
(* The program store: b.Code, a btree of Lines ordered by Number, kept    *)
(* here as the ascending sequence of its items.                           *)

Line(n, stmt) == [Number |-> n, Stmt |-> stmt]

\* The zero Line: var line Line
ZeroLine == Line(0, NilStmt)

\* btree.ReplaceOrInsert
ReplaceOrInsert(code, item) ==
    SelectSeq(code, LAMBDA l : l.Number < item.Number)
    \o <<item>>
    \o SelectSeq(code, LAMBDA l : l.Number > item.Number)

\* btree.Delete: removes the item whose key equals the key given.
Delete(code, n) == SelectSeq(code, LAMBDA l : l.Number # n)

\* btree.AscendGreaterOrEqual: the items the iterator visits, in order.
AscendGreaterOrEqual(code, n) == SelectSeq(code, LAMBDA l : l.Number >= n)

\* A fetch that passes over the line numbered n.
FetchAfter(code, n) ==
    Bind(SelectSeq(code, LAMBDA l : l.Number > n), LAMBDA items :
        IF items = << >> THEN ZeroLine ELSE Head(items))

\* Run's fetch: the callback keeps the first item visited and stops.
Fetch(code, n) ==
    Bind(AscendGreaterOrEqual(code, n), LAMBDA items :
        IF items = << >> THEN ZeroLine ELSE Head(items))

\* The visit of DELETE and LIST: items from strt on until Number > end.
RECURSIVE UpTo(_, _)
UpTo(items, end) ==
    IF items = << >> THEN << >>
    ELSE IF Head(items).Number > end THEN << >>
    ELSE <<Head(items)>> \o UpTo(Tail(items), end)

RECURSIVE DeleteAll(_, _)
DeleteAll(code, lines) ==
    IF lines = << >> THEN code
    ELSE DeleteAll(Delete(code, Head(lines).Number), Tail(lines))

MaxInt32 == 2147483647

\* readRange(tr, opt)
ReadRangeResult(strt, end, ok, r) ==
    [strt |-> strt, end |-> end, ok |-> ok, tr |-> r]

ReadRangeCheck(strt, end, r) ==
    IF end < strt THEN ReadRangeResult(0, 0, FALSE, r)
    ELSE ReadRangeResult(strt, end, TRUE, r)

\* After <strt> '-': the end of the range and the end of the line.
ReadRangeEnd(r, strt) ==
    Bind(ReadToken(r), LAMBDA z :
        IF z.t # IntegerToken THEN ReadRangeResult(0, 0, FALSE, z.tr)
        ELSE Bind(ReadToken(z.tr), LAMBDA e :
                 IF e.t # EndOfLine THEN ReadRangeResult(0, 0, FALSE, e.tr)
                 ELSE ReadRangeCheck(strt, z.n, e.tr)))

ReadRange(r, opt) ==
    Bind(ReadToken(r), LAMBDA x :
        IF x.t = IntegerToken
        THEN Bind(ReadToken(x.tr), LAMBDA y :
                 IF y.t = OperatorToken /\ y.s = <<"-">>
                 THEN ReadRangeEnd(y.tr, x.n)
                 ELSE IF y.t # EndOfLine
                 THEN ReadRangeResult(0, 0, FALSE, y.tr)
                 ELSE ReadRangeCheck(x.n, MaxInt32, y.tr))
        ELSE IF x.t = EndOfLine
        THEN IF ~opt THEN ReadRangeResult(0, 0, FALSE, x.tr)
             ELSE ReadRangeCheck(0, MaxInt32, x.tr)
        ELSE ReadRangeResult(0, 0, FALSE, x.tr))

\* The DELETE case once the range is read.
DeleteRange(code, strt, end) ==
    IF end = MaxInt32 THEN Delete(code, strt)
    ELSE DeleteAll(code, UpTo(AscendGreaterOrEqual(code, strt), end))

\* fmt.Fprintf(w, "%d ", line.Number); line.Stmt.Print(w); fmt.Fprintln(w)
\* The listing stops inside the first line whose Print cannot be called.
RECURSIVE Listing(_)
Listing(lines) ==
    IF lines = << >> THEN << >>
    ELSE IF PrintPanics(Head(lines).Stmt)
    THEN Itoa(Head(lines).Number) \o <<" ">> \o StmtPrint(Head(lines).Stmt)
    ELSE Itoa(Head(lines).Number) \o <<" ">> \o StmtPrint(Head(lines).Stmt)
         \o <<NL>> \o Listing(Tail(lines))

ListingPanics(lines) == \E i \in DOMAIN lines : PrintPanics(lines[i].Stmt)

-----------------------------------------------------------------------------
(* Load.  fs maps the name of each file that exists to its text.          *)

LoadResult(ok, code, vs, errw, r) ==
    [ok |-> ok, Code |-> code, Vars |-> vs, ErrW |-> errw, tr |-> r]

\* Load's and Program's skip of blanks and newlines before a line.
RECURSIVE SkipBlank(_)
SkipBlank(r) ==
    Bind(ReadRuneEOF(r), LAMBDA x :
        IF x.eof THEN [eof |-> TRUE, tr |-> x.tr]
        ELSE IF x.ch # " " /\ x.ch # NL
        THEN [eof |-> FALSE, tr |-> UnreadRune(x.tr)]
        ELSE SkipBlank(x.tr))

\* b.New()
NewVars == << >>

NewCode == << >>

\* The for loop of Load, over the reader r of the file; code is the new
\* b.Code and oldCode, oldVars what Load set aside to restore.
RECURSIVE LoadLoop(_, _, _, _)
\* A Load that leaves what it has read so far in place when a line fails.
LoadLineKeeps(x, code, oldCode, oldVars) ==
    IF x.t = IntegerToken
    THEN Bind(CompileStatement(x.tr, TRUE), LAMBDA c :
             IF c.ok
             THEN LoadLoop(c.tr, ReplaceOrInsert(code, Line(x.n, c.v)),
                           oldCode, oldVars)
             ELSE LoadResult(FALSE, code, NewVars, c.msg, c.tr))
    ELSE Bind(Error(x.tr,
                Msg("basic: error: statement must start with a line number")),
              LAMBDA e : LoadResult(FALSE, code, NewVars, e.msg, e.tr))

\* One line of the file: its number is read, its statement is next.
LoadLine(x, code, oldCode, oldVars) ==
    IF x.t = IntegerToken
    THEN Bind(CompileStatement(x.tr, TRUE), LAMBDA c :
             IF c.ok
             THEN LoadLoop(c.tr, ReplaceOrInsert(code, Line(x.n, c.v)),
                           oldCode, oldVars)
             ELSE LoadResult(FALSE, oldCode, oldVars, c.msg, c.tr))
    ELSE Bind(Error(x.tr,
                Msg("basic: error: statement must start with a line number")),
              LAMBDA e : LoadResult(FALSE, oldCode, oldVars, e.msg, e.tr))

LoadLoop(r, code, oldCode, oldVars) ==
    Bind(SkipBlank(r), LAMBDA b :
        IF b.eof THEN LoadResult(TRUE, code, NewVars, << >>, b.tr)
        ELSE Bind(ReadToken(b.tr), LAMBDA x :
                 LoadLine(x, code, oldCode, oldVars)))

Load(files, fn, code, vs) ==
    IF fn \notin DOMAIN files
    THEN LoadResult(FALSE, code, vs, <<MsgArg("basic: error: OPEN: %s", fn)>>,
                    NewTokenReader(<< >>))
    ELSE LoadLoop(NewTokenReader(files[fn]), NewCode, code, vs)

-----------------------------------------------------------------------------
(* Program: one iteration of its loop per step, and Run: one iteration of *)
(* its loop per step.  pc is "program" while Program waits for a line,    *)
(* "run" inside Run, "exit" once Program has returned, and "fatal",       *)
(* "hang" or "panic" once the process has ended or can go no further.     *)

\* The help text, abbreviated.
HelpText == <<"h", "e", "l", "p", NL>>

Commands == {KwDELETE, KwEXIT, KwHELP, KwLIST, KwLOAD, KwNEW, KwRUN, KwSAVE}

\* The top of Program's loop: skip blanks, then read the first token.
Start == SkipBlank(tr)

First == Bind(Start, LAMBDA b : ReadToken(b.tr))

After(r) == IF r.fatal THEN "fatal" ELSE IF r.hung THEN "hang" ELSE "program"

\* t, _, _ = tr.ReadToken(); if t != EndOfLine { b.Error(tr, msg) }
NoArguments(r, msg) ==
    Bind(ReadToken(r), LAMBDA x :
        IF x.t # EndOfLine THEN Error(x.tr, msg) ELSE CompOk(NilStmt, x.tr))

\* LOAD and SAVE read one string and the end of the line.
FileArgument(r) ==
    Bind(ReadToken(r), LAMBDA x :
        IF x.t # StringToken
        THEN Error(x.tr, Msg("basic: error: SAVE expects one string argument"))
        ELSE Bind(ReadToken(x.tr), LAMBDA y :
                 IF y.t # EndOfLine
                 THEN Error(y.tr,
                        Msg("basic: error: SAVE expects one string argument"))
                 ELSE CompOk(x.s, y.tr)))

\* The reader reached the end of the input: Program returns.
ProgramEOF ==
    /\ pc = "program"
    /\ Start.eof
    /\ pc' = "exit"
    /\ tr' = Start.tr
    /\ W' = << >>
    /\ ErrW' = << >>
    /\ UNCHANGED <<Vars, Code, ln, stk, line, fs>>

\* The first token of the line, when Program is about to read one.
AtLine(x) ==
    /\ pc = "program"
    /\ ~Start.eof

\* <line-number> <statement>
ProgramLine ==
    \E x \in {First} :
    /\ AtLine(x)
    /\ x.t = IntegerToken
    /\ \E c \in {CompileStatement(x.tr, TRUE)} :
           /\ tr' = c.tr
           /\ pc' = After(c.tr)
           /\ Code' = IF c.ok /\ ~Stopped(c.tr)
                      THEN ReplaceOrInsert(Code, Line(x.n, c.v))
                      ELSE Code
           /\ ErrW' = c.msg
    /\ W' = << >>
    /\ UNCHANGED <<Vars, ln, stk, line, fs>>

\* The effect of DELETE, its range read.
DeleteEffect(rr) ==
    IF ~rr.ok
    THEN \E e \in {Error(rr.tr, Msg("basic: error: bad argument to DELETE"))} :
             /\ tr' = e.tr
             /\ pc' = After(e.tr)
             /\ ErrW' = e.msg
             /\ Code' = Code
    ELSE /\ tr' = rr.tr
         /\ pc' = After(rr.tr)
         /\ ErrW' = << >>
         /\ Code' = IF Stopped(rr.tr) THEN Code
                    ELSE DeleteRange(Code, rr.strt, rr.end)

ProgramDelete ==
    \E x \in {First} :
    /\ AtLine(x)
    /\ x.t = KeywordToken
    /\ x.s = KwDELETE
    /\ \E rr \in {ReadRange(x.tr, FALSE)} : DeleteEffect(rr)
    /\ W' = << >>
    /\ UNCHANGED <<Vars, ln, stk, line, fs>>

ProgramExit ==
    \E x \in {First} :
    /\ AtLine(x)
    /\ x.t = KeywordToken
    /\ x.s = KwEXIT
    /\ \E a \in {NoArguments(x.tr,
                     Msg("basic: error: EXIT takes no arguments"))} :
           /\ tr' = a.tr
           /\ ErrW' = a.msg
           /\ pc' = IF a.ok /\ ~Stopped(a.tr) THEN "exit" ELSE After(a.tr)
    /\ W' = << >>
    /\ UNCHANGED <<Vars, Code, ln, stk, line, fs>>

ProgramHelp ==
    \E x \in {First} :
    /\ AtLine(x)
    /\ x.t = KeywordToken
    /\ x.s = KwHELP
    /\ \E a \in {NoArguments(x.tr,
                     Msg("basic: error: HELP takes no arguments"))} :
           /\ tr' = a.tr
           /\ ErrW' = a.msg
           /\ pc' = After(a.tr)
           /\ W' = IF a.ok /\ ~Stopped(a.tr) THEN HelpText ELSE << >>
    /\ UNCHANGED <<Vars, Code, ln, stk, line, fs>>

\* The effect of LIST, its range read.
ListEffect(rr) ==
    IF ~rr.ok
    THEN \E e \in {Error(rr.tr, Msg("basic: error: bad argument to LIST"))} :
             /\ tr' = e.tr
             /\ pc' = After(e.tr)
             /\ ErrW' = e.msg
             /\ W' = << >>
    ELSE \E lines \in {UpTo(AscendGreaterOrEqual(Code, rr.strt), rr.end)} :
             /\ tr' = rr.tr
             /\ ErrW' = << >>
             /\ pc' = IF Stopped(rr.tr) THEN After(rr.tr)
                      ELSE IF ListingPanics(lines) THEN "panic"
                      ELSE "program"
             /\ W' = IF Stopped(rr.tr) THEN << >> ELSE Listing(lines)

ProgramList ==
    \E x \in {First} :
    /\ AtLine(x)
    /\ x.t = KeywordToken
    /\ x.s = KwLIST
    /\ \E rr \in {ReadRange(x.tr, TRUE)} : ListEffect(rr)
    /\ UNCHANGED <<Vars, Code, ln, stk, line, fs>>

\* The effect of LOAD, its argument read.
LoadEffect(a) ==
    IF ~a.ok \/ Stopped(a.tr)
    THEN /\ pc' = After(a.tr)
         /\ ErrW' = a.msg
         /\ UNCHANGED <<Code, Vars>>
    ELSE \E l \in {Load(fs, a.v, Code, Vars)} :
             /\ pc' = After(l.tr)
             /\ ErrW' = l.ErrW
             /\ Code' = IF Stopped(l.tr) THEN Code ELSE l.Code
             /\ Vars' = IF Stopped(l.tr) THEN Vars ELSE l.Vars

ProgramLoad ==
    \E x \in {First} :
    /\ AtLine(x)
    /\ x.t = KeywordToken
    /\ x.s = KwLOAD
    /\ \E a \in {FileArgument(x.tr)} :
           /\ tr' = a.tr
           /\ LoadEffect(a)
    /\ W' = << >>
    /\ UNCHANGED <<ln, stk, line, fs>>

ProgramNew ==
    \E x \in {First} :
    /\ AtLine(x)
    /\ x.t = KeywordToken
    /\ x.s = KwNEW
    /\ \E a \in {NoArguments(x.tr,
                     Msg("basic: error: NEW takes no arguments"))} :
           /\ tr' = a.tr
           /\ ErrW' = a.msg
           /\ pc' = After(a.tr)
           /\ Code' = IF a.ok /\ ~Stopped(a.tr) THEN NewCode ELSE Code
           /\ Vars' = IF a.ok /\ ~Stopped(a.tr) THEN NewVars ELSE Vars
    /\ W' = << >>
    /\ UNCHANGED <<ln, stk, line, fs>>

\* RUN enters Run: var ln int; var stk []Ctx
ProgramRun ==
    \E x \in {First} :
    /\ AtLine(x)
    /\ x.t = KeywordToken
    /\ x.s = KwRUN
    /\ \E a \in {NoArguments(x.tr,
                     Msg("basic: error: RUN takes no arguments"))} :
           /\ tr' = a.tr
           /\ ErrW' = a.msg
           /\ IF a.ok /\ ~Stopped(a.tr)
              THEN /\ pc' = "run"
                   /\ ln' = 0
                   /\ stk' = << >>
                   /\ line' = ZeroLine
              ELSE /\ pc' = After(a.tr)
                   /\ UNCHANGED <<ln, stk, line>>
    /\ W' = << >>
    /\ UNCHANGED <<Vars, Code, fs>>

\* b.Save(fn): os.Create truncates the file, the lines reach it at w.Flush()
Save(files, fn, code) ==
    [f \in DOMAIN files \cup {fn} |->
        IF f # fn THEN files[f]
        ELSE IF ListingPanics(code) THEN << >>
        ELSE Listing(code)]

ProgramSave ==
    \E x \in {First} :
    /\ AtLine(x)
    /\ x.t = KeywordToken
    /\ x.s = KwSAVE
    /\ \E a \in {FileArgument(x.tr)} :
           /\ tr' = a.tr
           /\ ErrW' = a.msg
           /\ IF ~a.ok \/ Stopped(a.tr)
              THEN /\ pc' = After(a.tr)
                   /\ fs' = fs
              ELSE /\ pc' = IF ListingPanics(Code) THEN "panic" ELSE "program"
                   /\ fs' = Save(fs, a.v, Code)
    /\ W' = << >>
    /\ UNCHANGED <<Vars, Code, ln, stk, line>>

\* The effect of a statement typed without a number, once compiled:
\* stmt.Execute(b, 0, nil)
ImmediateEffect(c) ==
    IF ~c.ok \/ Stopped(c.tr)
    THEN /\ pc' = After(c.tr)
         /\ ErrW' = c.msg
         /\ W' = << >>
         /\ Vars' = Vars
    ELSE \E r \in {Execute(c.v, 0, << >>, Vars)} :
             /\ pc' = IF r.panic THEN "panic" ELSE "program"
             /\ ErrW' = r.ErrW
             /\ W' = r.W
             /\ Vars' = r.Vars

\* default: a statement to execute at once
ProgramImmediate ==
    \E x \in {First} :
    /\ AtLine(x)
    /\ x.t = KeywordToken
    /\ x.s \notin Commands
    /\ \E c \in {CompileKeyword(x.tr, x.s, TRUE)} :
           /\ tr' = c.tr
           /\ ImmediateEffect(c)
    /\ UNCHANGED <<Code, ln, stk, line, fs>>

\* The line starts with neither a number nor a keyword.
ProgramOther ==
    \E x \in {First} :
    /\ AtLine(x)
    /\ x.t \notin {IntegerToken, KeywordToken}
    /\ \E e \in {Error(x.tr,
         Msg("basic: error: statement must start with a keyword or variable"
             ))} :
           /\ tr' = e.tr
           /\ pc' = After(e.tr)
           /\ ErrW' = e.msg
    /\ W' = << >>
    /\ UNCHANGED <<Vars, Code, ln, stk, line, fs>>

MaxStk == 3

\* The effect of the statement of line l, executed by Run.
RunEffect(l) ==
    \E r \in {Execute(l.Stmt, l.Number, stk, Vars)} :
        /\ Len(r.stk) <= MaxStk
        /\ ln' = r.ln
        /\ stk' = r.stk
        /\ Vars' = r.Vars
        /\ W' = r.W
        /\ ErrW' = r.ErrW
        /\ pc' = IF r.panic THEN "panic"
                 ELSE IF r.ln <= 0 THEN "program"
                 ELSE "run"

\* One iteration of Run's loop: fetch the first line at or after ln, leave
\* if there is none, execute it, leave if it returns ln <= 0.
RunStep ==
    /\ pc = "run"
    /\ \E l \in {Fetch(Code, ln)} :
           /\ line' = l
           /\ IF l.Number = 0
              THEN /\ pc' = "program"
                   /\ W' = << >>
                   /\ ErrW' = << >>
                   /\ UNCHANGED <<ln, stk, Vars>>
              ELSE RunEffect(l)
    /\ UNCHANGED <<tr, Code, fs>>

Next ==
    \/ ProgramEOF
    \/ ProgramLine
    \/ ProgramDelete
    \/ ProgramExit
    \/ ProgramHelp
    \/ ProgramList
    \/ ProgramLoad
    \/ ProgramNew
    \/ ProgramRun
    \/ ProgramSave
    \/ ProgramImmediate
    \/ ProgramOther
    \/ RunStep

-----------------------------------------------------------------------------
(* The input: what is typed at the interpreter, and the files it finds.   *)
(* A script is the whole text of the standard input of one session.       *)

\* The words of one line, a blank between them, and the newline.
RECURSIVE Words(_)
Words(parts) ==
    IF parts = << >> THEN <<NL>>
    ELSE IF Len(parts) = 1 THEN Head(parts) \o <<NL>>
    ELSE Head(parts) \o <<" ">> \o Words(Tail(parts))

\* <n> <statement>, or nothing typed for an empty statement.
Numbered(n, parts) ==
    IF parts = << >> THEN << >> ELSE Words(<<Itoa(n)>> \o parts)

RECURSIVE Concat(_)
Concat(texts) ==
    IF texts = << >> THEN << >> ELSE Head(texts) \o Concat(Tail(texts))

Quoted(s) == <<"\"">> \o s \o <<"\"">>

FileName == <<"f">>

One == Itoa(1)

Test11 == <<One, OpEq, One>>

Test12 == <<One, OpEq, Itoa(2)>>

\* Programs of up to three lines that call, return and jump, then RUN.
FlowNumbers == <<10, 20, 30>>

FlowStmts ==
    { << >>,
      <<KwGOSUB, Itoa(20)>>,
      <<KwGOSUB, Itoa(30)>>,
      <<KwRETURN>>,
      <<KwGOTO, Itoa(15)>>,
      <<KwGOTO, Itoa(35)>>,
      <<KwEND>>,
      <<KwPRINT, One>>,
      <<KwIF>> \o Test11 \o <<KwTHEN, KwGOSUB, Itoa(30)>>,
      <<KwIF>> \o Test12 \o <<KwTHEN, KwEND, KwELSE, KwGOSUB, Itoa(20)>>,
      <<KwIF>> \o Test11 \o <<KwTHEN, KwRETURN>>,
      <<KwIF>> \o Test11 \o <<KwGOTO, Itoa(25)>> }

FlowScripts ==
    { Concat([i \in 1..Len(FlowNumbers) |-> Numbered(FlowNumbers[i], c[i])])
      \o Words(<<KwRUN>>)
      \o Words(<<KwRETURN>>) :
        c \in [1..Len(FlowNumbers) -> FlowStmts] }

\* Programs of lines n PRINT n, one DELETE and a LIST.
EditNumbers == <<0, 5, 10, 20>>

RangeEnds == {0, 5, 7, 20, MaxInt32}

DeleteArgs ==
    { <<Itoa(n)>> : n \in RangeEnds }
    \cup { <<Itoa(lo) \o <<"-">> \o Itoa(hi)>> : lo \in RangeEnds,
                                               hi \in RangeEnds }
    \cup { << >>, <<Itoa(5), <<"-">>>>, <<KwEND>>, <<Itoa(5), Itoa(7)>>,
           <<Itoa(5), <<"-">>, Itoa(7), Itoa(9)>> }

EditScripts ==
    { Concat([i \in 1..Len(EditNumbers) |->
                 IF c[i] THEN Numbered(EditNumbers[i],
                                       <<KwPRINT, Itoa(EditNumbers[i])>>)
                 ELSE << >>])
      \o Words(<<KwDELETE>> \o d)
      \o Words(<<KwLIST>>)
      \o Words(<<KwRUN>>) :
        c \in [1..Len(EditNumbers) -> BOOLEAN], d \in DeleteArgs }

\* Statements typed without a number, and the same as a program.
NameA == <<"A", "%">>

NameS == <<"S", "$">>

NameB == <<"B", "%">>

TextX == Quoted(<<"x">>)

EvalStmts ==
    { <<NameA, OpEq, One>>,
      <<NameS, OpEq, TextX>>,
      <<NameA, OpEq, TextX>>,
      <<NameS, OpEq, One>>,
      <<NameA, OpEq, One, OpEq, One>>,
      <<NameS, OpEq, TextX, OpLt, TextX>>,
      <<NameA, OpEq, NameB>>,
      <<NameA, OpEq, NameA, OpPlus, One>>,
      <<NameA, OpEq, Itoa(7), OpDivide, Itoa(0)>>,
      <<NameA, OpEq, OpMinus, Itoa(7), OpDivide, Itoa(2)>>,
      <<NameS, OpEq, NameS, OpPlus, One>>,
      <<NameS, OpEq, TextX, OpMinus, TextX>>,
      <<NameA, OpEq, OpMinus, TextX>>,
      <<KwPRINT, NameA, <<",">>, NameS>>,
      <<KwPRINT, One, <<",">>, One, OpDivide, Itoa(0)>>,
      <<KwRETURN>>,
      <<KwIF, NameA, KwTHEN, KwEND>>,
      <<KwIF, NameA, OpEq, One, KwTHEN, NameS, OpEq, TextX,
        KwELSE, NameS, OpEq, One>> }

ImmediateScripts ==
    { Words(c[1]) \o Words(c[2]) \o Words(<<KwPRINT, NameA, <<",">>, NameS>>) :
        c \in EvalStmts \X EvalStmts }

ProgramScripts ==
    { Numbered(10, c[1]) \o Numbered(20, c[2]) \o Words(<<KwRUN>>)
      \o Words(<<KwLIST>>) :
        c \in EvalStmts \X EvalStmts }

\* 10 PRINT a op1 b op2 c, with and without parentheses, run and listed.
FirstOperands ==
    { <<Itoa(12)>>, <<Quoted(<<"a", "b">>)>>, <<OpMinus, Itoa(3)>>,
      <<<<"(">>, Itoa(1), OpPlus, Itoa(2), <<")">>>> }

SecondOperands == { <<Itoa(34)>>, <<Quoted(<<"c">>)>> }

ThirdOperands == { <<Itoa(56)>>, <<NameS>> }

ExprTexts ==
    { c[1] \o <<c[2]>> \o c[3] \o <<c[4]>> \o c[5] :
        c \in FirstOperands \X BinaryOpNames \X SecondOperands
              \X BinaryOpNames \X ThirdOperands }
    \cup { <<<<"(">>>> \o c[1] \o <<c[2]>> \o c[3] \o <<<<")">>, c[4]>> \o c[5] :
        c \in FirstOperands \X BinaryOpNames \X SecondOperands
              \X BinaryOpNames \X ThirdOperands }

ExprScripts ==
    { Numbered(10, <<KwPRINT>> \o e)
      \o Words(<<KwRUN>>)
      \o Words(<<KwLIST>>) :
        e \in ExprTexts }

\* No file exists.
NoFiles == << >>

OneFile(text) == [f \in {FileName} |-> text]

GoodLine == Numbered(10, <<KwPRINT, One>>)

FileTexts ==
    { GoodLine \o Numbered(20, <<KwEND>>),
      GoodLine \o Numbered(20, <<<<"F", "O", "O">>>>),
      GoodLine \o Numbered(20, <<KwPRINT>>),
      GoodLine \o Numbered(20, <<KwEND, One>>),
      GoodLine \o Words(<<KwEND>>),
      GoodLine \o Numbered(0, <<KwEND>>),
      GoodLine \o Numbered(20, <<KwFOR>>),
      GoodLine \o <<"2", "0", " ", "E", "N", "D">>,
      Words(<<KwRUN>>),
      << >> }

LoadFiles == {NoFiles} \cup { OneFile(t) : t \in FileTexts }

\* A program and a variable, then LOAD of a file that was there before.
LoadScripts ==
    { Numbered(10, c[1]) \o Numbered(30, c[2]) \o Words(c[3])
      \o Words(<<KwLOAD, Quoted(FileName)>>)
      \o Words(<<KwLIST>>)
      \o Words(<<KwRUN>>) :
        c \in {<< >>, <<KwGOTO, Itoa(30)>>} \X {<< >>, <<KwEND>>}
              \X {<< >>, <<NameA, OpEq, One>>} }

\* One line each of what the other scripts leave out, typed after a program
\* line and an assignment and followed by a listing, a save, a load and a run.
OtherLines ==
    { Words(<<KwEXIT>>),
      Words(<<KwEXIT, One>>),
      Words(<<KwHELP>>),
      Words(<<KwHELP, One>>),
      Words(<<KwNEW>>),
      Words(<<KwNEW, One>>),
      Words(<<KwRUN, One>>),
      Words(<<KwLIST, Itoa(20), OpMinus, Itoa(10)>>),
      Words(<<KwLOAD, One>>),
      Words(<<KwLOAD, Quoted(FileName), One>>),
      Words(<<KwSAVE, One>>),
      Words(<<KwSAVE, Quoted(FileName), One>>),
      Words(<<OpEq, One>>),
      Words(<<Quoted(<<"x">>)>>),
      Words(<<<<"!">>, KwEND>>),
      Words(<<KwFOR>>),
      Words(<<KwGOSUB, Itoa(10)>>),
      Words(<<KwGOSUB>>),
      Words(<<KwGOTO, NameA>>),
      Words(<<KwIF, One>>),
      Words(<<KwIF, One, OpEq, One, KwGOTO>>),
      Words(<<KwPRINT, <<"(">>, One>>),
      Words(<<KwPRINT, One, OpLt>>),
      Words(<<KwPRINT, One, OpGt, One>>),
      Words(<<KwPRINT, One, OpGe, One>>),
      Words(<<KwPRINT, One, OpLe, One, <<"'">>, <<"x">>>>),
      Words(<<NameA, One>>),
      Words(<<<<"A">>, OpEq, One>>),
      Words(<<<<"p", "r", "i", "n", "t">>, <<"a", "%">>>>),
      Numbered(5, <<KwREM>>),
      Numbered(5, <<KwREM, <<"a">>, <<"b">>>>),
      Numbered(5, <<KwFOR>>),
      Numbered(5, <<KwIF, One, OpEq, One, KwTHEN, KwNEXT>>),
      Numbered(5, <<KwIF, TextX, OpEq, TextX, KwTHEN, KwPRINT, TextX,
                    KwELSE, KwREM, <<"x">>>>),
      Numbered(5, <<KwIF, TextX, OpNe, TextX, KwGOTO, Itoa(7)>>),
      Numbered(5, <<NameS, OpEq, TextX, OpPlus, TextX>>),
      Numbered(5, <<KwPRINT, OpMinus, TextX>>),
      Numbered(5, <<KwPRINT, TextX, <<",">>, One>>),
      Numbered(5, <<One>>),
      <<"5", " ", "E", "N", "D">>,
      <<"P", "R", "I", "N", "T", " ", "\"", "x", NL>> }

OtherScripts ==
    { Numbered(10, <<KwPRINT, One>>)
      \o Words(<<NameA, OpEq, One>>)
      \o l
      \o Words(<<KwLIST>>)
      \o Words(<<KwSAVE, Quoted(FileName)>>)
      \o Words(<<KwLOAD, Quoted(FileName)>>)
      \o Words(<<KwRUN>>) :
        l \in OtherLines }

Sessions ==
    ((FlowScripts \cup EditScripts \cup ImmediateScripts
      \cup ProgramScripts \cup ExprScripts \cup OtherScripts) \X {NoFiles})
    \cup (LoadScripts \X LoadFiles)

\* NewBasic, and Program called on the input.
Init ==
    /\ \E x \in Sessions :
           /\ tr = NewTokenReader(x[1])
           /\ fs = x[2]
    /\ Vars = NewVars
    /\ Code = NewCode
    /\ W = << >>
    /\ ErrW = << >>
    /\ pc = "program"
    /\ ln = 0
    /\ stk = << >>
    /\ line = ZeroLine

Spec == Init /\ [][Next]_vars

-----------------------------------------------------------------------------
(* Properties of a run: calls, returns and jumps.                         *)

\* The lines of code numbered n or more.
AtOrAfter(code, n) == { l \in Range(code) : l.Number >= n }

\* The one of them with the smallest number.
Smallest(lines) ==
    CHOOSE l \in lines : \A m \in lines : l.Number <= m.Number

\* The statement that runs when stmt does: the branch an IF takes, or stmt.
RECURSIVE Taken(_, _)
Taken(stmt, vs) ==
    IF stmt.k # "IfThenStmt" THEN stmt
    ELSE Bind(Eval(stmt.Test, vs), LAMBDA x :
             IF ~x.ok \/ x.val.tag # "bool" THEN stmt
             ELSE IF x.val.b THEN Taken(stmt.Then, vs)
             ELSE IF stmt.Else # NilStmt THEN Taken(stmt.Else, vs)
             ELSE stmt)

\* This step is Run executing a line whose statement comes down to one of
\* kind k.
Runs(k) ==
    /\ pc = "run"
    /\ line'.Number # 0
    /\ Taken(line'.Stmt, Vars).k = k

\* A GOSUB, alone or as the branch of an IF, pushes the number of the line
\* it stands on.
CallPushes ==
    Runs("GoSubStmt") =>
        /\ stk' = Append(stk, Ctx(GoSubCtx, line'.Number))
        /\ ln' = Taken(line'.Stmt, Vars).n

\* A RETURN with a frame on the stack pops the top one and continues at its
\* number plus one.
ReturnPops ==
    Runs("ReturnStmt") /\ Len(stk) > 0 =>
        /\ stk' = SubSeq(stk, 1, Len(stk) - 1)
        /\ ln' = stk[Len(stk)].Number + 1
        /\ pc' = "run"
        /\ ErrW' = << >>
        /\ UNCHANGED <<Vars, Code>>

\* A RETURN has just popped a frame.
Returned ==
    /\ pc = "run"
    /\ line.Number # 0
    /\ Taken(line.Stmt, Vars).k = "ReturnStmt"

\* The line Run executes after that is the first one at or after ln.
ReturnContinues ==
    Returned =>
        IF AtOrAfter(Code, ln) # {}
        THEN line' = Smallest(AtOrAfter(Code, ln))
        ELSE line' = ZeroLine /\ pc' = "program" /\ ErrW' = << >>

\* C1: during Run a RETURN executed with a frame on the stack pops exactly
\* the top frame, and the statement executed next is the stored line with
\* the smallest number >= the popped frame's line number + 1, at any depth
\* of calls; a GOSUB that is the branch of an IF records the IF's line.
ReturnResumesAfterCall ==
    [][CallPushes /\ ReturnPops /\ ReturnContinues]_vars

\* A RETURN of a nested call has just run, and the frame now on top was
\* pushed by a GOSUB that is the branch of an IF.
ReturnedFromNestedCall ==
    /\ Returned
    /\ ErrW = << >>
    /\ Len(stk) >= 1
    /\ \E l \in Range(Code) :
           /\ l.Number = stk[Len(stk)].Number
           /\ l.Stmt.k = "IfThenStmt"
    /\ ln > stk[Len(stk)].Number + 1

\* C2: during Run, after a statement returned a next line N > 0, the
\* statement executed next is the stored line with the smallest number >= N,
\* whether or not a line N exists, and Run stops without an error when no
\* stored line has a number >= N.
NextLineIsFirstAtOrAfter ==
    [][pc = "run" /\ ln > 0 =>
           IF AtOrAfter(Code, ln) # {}
           THEN /\ line' = Smallest(AtOrAfter(Code, ln))
                /\ ln' = Execute(line'.Stmt, line'.Number, stk, Vars).ln
           ELSE /\ line' = ZeroLine
                /\ pc' = "program"
                /\ W' = << >>
                /\ ErrW' = << >>
                /\ UNCHANGED <<Vars, Code, stk>>]_vars

\* Run went from 10 GOTO 15 to line 20, there being no line 15, and from
\* 20 GOTO 35 to the end, there being no line at or after 35.
FellThroughThenStopped ==
    /\ Code = <<Line(10, GotoStmt(15)), Line(20, GotoStmt(35))>>
    /\ ln = 35
    /\ line = ZeroLine
    /\ pc = "program"
    /\ ErrW = << >>

-----------------------------------------------------------------------------
(* Properties of Load and of the store.                                   *)

\* The statement typed without a line number that Program is about to
\* compile and execute, as the compiler returns it.
Typed == CompileKeyword(First.tr, First.s, TRUE)

\* Program is about to execute a statement typed without a line number.
AtImmediate ==
    /\ pc = "program"
    /\ ~Start.eof
    /\ First.t = KeywordToken
    /\ First.s \notin Commands
    /\ Typed.ok
    /\ ~Stopped(Typed.tr)

\* Program is about to read LOAD "name" and the file exists.
AtLoadOfFile ==
    /\ pc = "program"
    /\ ~Start.eof
    /\ First.t = KeywordToken
    /\ First.s = KwLOAD
    /\ FileArgument(First.tr).ok
    /\ FileArgument(First.tr).v \in DOMAIN fs

\* C4: when Load has opened a file and a line of it fails, Load returns false
\* with the program store and the variables exactly as they were before the
\* call: no line read from the file is present, none from before is missing.
LoadRestoresOnFailure ==
    [][AtLoadOfFile /\ pc' = "program" /\ ErrW' # << >> =>
           Code' = Code /\ Vars' = Vars]_vars

\* A LOAD has failed on the second line of its file, the first line being
\* good, with a program of two lines and a variable in place before it.
LoadFailedAfterGoodLine ==
    /\ pc = "program"
    /\ ErrW = <<Msg("basic: error: statement must start with a line number")>>
    /\ FileName \in DOMAIN fs
    /\ Code = <<Line(10, GotoStmt(30)), Line(30, EndStmt)>>
    /\ Vars = Store(NewVars, NameA, IntVal(1))

\* C5: every line of the program store has a number greater than 0; a line
\* typed or loaded with the number 0 adds no line 0 to the store.
NoLineZero == \A i \in DOMAIN Code : Code[i].Number > 0

\* C9: a RETURN executed with no frame on the stack, in a Run (whose stack
\* is empty at its start) or typed without a line number, reports 'RETURN
\* without a GOSUB', gives a next line <= 0 so that execution stops, and
\* leaves the program store and the variables as they were.
ReturnWithoutCall ==
    [][/\ pc = "program" /\ pc' = "run" => stk' = << >>
       /\ Runs("ReturnStmt") /\ stk = << >> =>
              /\ ErrW' = <<Msg("basic: error: RETURN without a GOSUB")>>
              /\ ln' <= 0
              /\ pc' = "program"
              /\ stk' = << >>
              /\ UNCHANGED <<Code, Vars>>
       /\ AtImmediate /\ Taken(Typed.v, Vars).k = "ReturnStmt" =>
              /\ ErrW' = <<Msg("basic: error: RETURN without a GOSUB")>>
              /\ pc' = "program"
              /\ UNCHANGED <<Code, Vars, stk>>]_vars

\* A Run has stopped at a RETURN that had no frame to pop, a variable
\* having been assigned before it.
StoppedAtReturn ==
    /\ pc = "program"
    /\ line.Number # 0
    /\ line.Stmt = ReturnStmt
    /\ ln = -1
    /\ stk = << >>
    /\ ErrW = <<Msg("basic: error: RETURN without a GOSUB")>>
    /\ Vars # NewVars

-----------------------------------------------------------------------------
(* Properties of DELETE.                                                  *)

\* The tokens that follow the command word on the line Program is reading.
Arg1 == ReadToken(First.tr)

Arg2 == ReadToken(Arg1.tr)

Arg3 == ReadToken(Arg2.tr)

Arg4 == ReadToken(Arg3.tr)

AtDelete ==
    /\ pc = "program"
    /\ ~Start.eof
    /\ First.t = KeywordToken
    /\ First.s = KwDELETE

\* Program is about to read DELETE lo-hi with lo <= hi.
AtDeleteRange ==
    /\ AtDelete
    /\ Arg1.t = IntegerToken
    /\ Arg2.t = OperatorToken
    /\ Arg2.s = OpMinus
    /\ Arg3.t = IntegerToken
    /\ Arg4.t = EndOfLine
    /\ Arg1.n <= Arg3.n

\* Program is about to read DELETE n.
AtDeleteOne ==
    /\ AtDelete
    /\ Arg1.t = IntegerToken
    /\ Arg2.t = EndOfLine

\* The lines of code whose number is not in lo..hi.
Outside(code, lo, hi) ==
    SelectSeq(code, LAMBDA l : l.Number < lo \/ l.Number > hi)

\* C7: DELETE lo-hi with lo <= hi removes exactly the stored lines whose
\* number is in lo..hi and leaves every other line as it was; DELETE n
\* removes only line n and does nothing, without an error, when there is no
\* line n.
DeleteRemovesExactly ==
    [][/\ AtDeleteRange =>
              Code' = Outside(Code, Arg1.n, Arg3.n) /\ ErrW' = << >>
       /\ AtDeleteOne =>
              Code' = Outside(Code, Arg1.n, Arg1.n) /\ ErrW' = << >>]_vars

-----------------------------------------------------------------------------
(* Properties of failing statements.                                      *)

\* Evaluating e against vs comes to an integer division by 0.
RECURSIVE DividesByZero(_, _)
DividesByZero(e, vs) ==
    IF e.k = "NegateExpr" THEN DividesByZero(e.Expr, vs)
    ELSE IF e.k # "BinaryExpr" THEN FALSE
    ELSE \/ DividesByZero(e.Left, vs)
         \/ Eval(e.Left, vs).ok /\ DividesByZero(e.Right, vs)
         \/ /\ e.Name = OpDivide
            /\ Eval(e.Left, vs).ok
            /\ Eval(e.Left, vs).val.tag = "int"
            /\ Eval(e.Right, vs).ok
            /\ Eval(e.Right, vs).val = IntVal(0)

\* Executing stmt against vs comes to an integer division by 0.
RECURSIVE StmtDividesByZero(_, _)
StmtDividesByZero(stmt, vs) ==
    IF stmt.k = "AssignStmt" THEN DividesByZero(stmt.Expr, vs)
    ELSE IF stmt.k = "PrintStmt"
    THEN \E i \in DOMAIN stmt.exprs :
             /\ DividesByZero(stmt.exprs[i], vs)
             /\ \A j \in 1..(i - 1) : Eval(stmt.exprs[j], vs).ok
    ELSE IF stmt.k = "IfGotoStmt" THEN DividesByZero(stmt.Test, vs)
    ELSE IF stmt.k = "IfThenStmt"
    THEN \/ DividesByZero(stmt.Test, vs)
         \/ /\ Taken(stmt, vs) # stmt
            /\ StmtDividesByZero(Taken(stmt, vs), vs)
    ELSE FALSE

\* C8: a statement whose expression divides an integer by 0 fails like any
\* other statement: its next line is <= 0, so that a run stops, nothing is
\* stored, and the interpreter goes on reading commands with the program
\* store and the variables as they were.
DivisionByZeroFails ==
    [][/\ pc = "run" /\ line'.Number # 0
            /\ StmtDividesByZero(line'.Stmt, Vars) =>
              /\ pc' = "program"
              /\ ln' <= 0
              /\ UNCHANGED <<Code, Vars>>
       /\ AtImmediate /\ StmtDividesByZero(Typed.v, Vars) =>
              /\ pc' = "program"
              /\ UNCHANGED <<Code, Vars>>]_vars

\* The assignment stmt fails against vs: its expression does not evaluate,
\* or its value has a tag that is not the one of the variable's suffix.
AssignFails(stmt, vs) ==
    \/ ~Eval(stmt.Expr, vs).ok
    \/ Suffix(stmt.Var) = "$" /\ Eval(stmt.Expr, vs).val.tag # "string"
    \/ Suffix(stmt.Var) = "%" /\ Eval(stmt.Expr, vs).val.tag # "int"

\* C6: an assignment whose value has a tag other than the one of the
\* target's suffix, or whose expression fails to evaluate, returns a next
\* line <= 0 and leaves the whole variable mapping unchanged.
FailedAssignKeepsVars ==
    [][/\ Runs("AssignStmt") /\ AssignFails(Taken(line'.Stmt, Vars), Vars) =>
              /\ pc' # "panic"
              /\ ln' <= 0
              /\ Vars' = Vars
       /\ AtImmediate /\ Taken(Typed.v, Vars).k = "AssignStmt"
            /\ AssignFails(Taken(Typed.v, Vars), Vars) =>
              /\ pc' # "panic"
              /\ Vars' = Vars]_vars

-----------------------------------------------------------------------------
(* Properties of the compilers.                                           *)

\* The statement compiled from the text that Print writes for stmt.
Recompiled(stmt) ==
    CompileStatement(NewTokenReader(StmtPrint(stmt) \o <<NL>>), TRUE)

\* C3: for every statement S the compiler produces, compiling the text that
\* S.Print writes gives a statement equal to S.
PrintThenCompileIsIdentity ==
    \A i \in DOMAIN Code :
        ~PrintPanics(Code[i].Stmt) =>
            /\ Recompiled(Code[i].Stmt).ok
            /\ Recompiled(Code[i].Stmt).v = Code[i].Stmt

\* The tokens of the line at the reader r, as the scanner gives them, the
\* end of the line left out.  A scanner that cannot go on gives a token of
\* no kind.
RECURSIVE LineTokens(_)
LineTokens(r) ==
    LET x == ReadToken(r)
    IN  IF x.t = EndOfLine /\ ~x.tr.fatal THEN << >>
        ELSE IF x.tr = r \/ x.tr.fatal
        THEN <<[t |-> "none", n |-> 0, s |-> << >>]>>
        ELSE <<[t |-> x.t, n |-> x.n, s |-> x.s]>> \o LineTokens(x.tr)

IsLeaf(ts, i) ==
    i <= Len(ts) /\ ts[i].t \in {IntegerToken, StringToken, KeywordToken}

IsOperator(ts, i, names) ==
    i <= Len(ts) /\ ts[i].t = OperatorToken /\ ts[i].s \in names

Leaf(tok) ==
    IF tok.t = IntegerToken THEN ValueExpr(IntVal(tok.n))
    ELSE IF tok.t = StringToken THEN ValueExpr(StrVal(tok.s))
    ELSE VarExpr(tok.s)

\* The number of tokens of the primary that starts at token i, 0 if none
\* does: a literal or a variable, ( x op y ), and - x when neg allows it.
PrimaryLen(ts, i, neg) ==
    IF IsLeaf(ts, i) THEN 1
    ELSE IF /\ IsOperator(ts, i, {<<"(">>})
            /\ IsLeaf(ts, i + 1)
            /\ IsOperator(ts, i + 2, BinaryOpNames)
            /\ IsLeaf(ts, i + 3)
            /\ IsOperator(ts, i + 4, {<<")">>})
    THEN 5
    ELSE IF neg /\ IsOperator(ts, i, {OpMinus}) /\ IsLeaf(ts, i + 1) THEN 2
    ELSE 0

\* The expression that primary stands for.
PrimaryTree(ts, i) ==
    IF IsLeaf(ts, i) THEN Leaf(ts[i])
    ELSE IF IsOperator(ts, i, {<<"(">>})
    THEN BinaryExpr(ts[i + 2].s, Leaf(ts[i + 1]), Leaf(ts[i + 3]))
    ELSE NegateExpr(Leaf(ts[i + 1]))

\* ts from token i on is a op1 b op2 c: where b and c start, 0 if it is not.
ChainB(ts, i, neg) ==
    IF PrimaryLen(ts, i, neg) > 0
       /\ IsOperator(ts, i + PrimaryLen(ts, i, neg), BinaryOpNames)
       /\ PrimaryLen(ts, i + PrimaryLen(ts, i, neg) + 1, neg) > 0
    THEN i + PrimaryLen(ts, i, neg) + 1
    ELSE 0

ChainC(ts, i, neg) ==
    IF ChainB(ts, i, neg) > 0
       /\ IsOperator(ts, ChainB(ts, i, neg)
                         + PrimaryLen(ts, ChainB(ts, i, neg), neg),
                     BinaryOpNames)
    THEN ChainB(ts, i, neg) + PrimaryLen(ts, ChainB(ts, i, neg), neg) + 1
    ELSE 0

\* a op1 b op2 c from token i to token j.
IsChain(ts, i, j, neg) ==
    /\ ChainC(ts, i, neg) > 0
    /\ PrimaryLen(ts, ChainC(ts, i, neg), neg) > 0
    /\ ChainC(ts, i, neg) + PrimaryLen(ts, ChainC(ts, i, neg), neg) = j + 1

\* BinaryOp(op1, a, BinaryOp(op2, b, c))
ChainTree(ts, i, neg) ==
    BinaryExpr(ts[ChainB(ts, i, neg) - 1].s,
               PrimaryTree(ts, i),
               BinaryExpr(ts[ChainC(ts, i, neg) - 1].s,
                          PrimaryTree(ts, ChainB(ts, i, neg)),
                          PrimaryTree(ts, ChainC(ts, i, neg))))

\* ( a op1 b ) op2 c from token i to the last: where the ) is, 0 if it is not.
GroupClose(ts, i, neg) ==
    IF /\ IsOperator(ts, i, {<<"(">>})
       /\ ChainB(ts, i + 1, neg) > 0
       /\ IsOperator(ts, ChainB(ts, i + 1, neg)
                         + PrimaryLen(ts, ChainB(ts, i + 1, neg), neg),
                     {<<")">>})
    THEN ChainB(ts, i + 1, neg) + PrimaryLen(ts, ChainB(ts, i + 1, neg), neg)
    ELSE 0

IsGroup(ts, i, neg) ==
    /\ GroupClose(ts, i, neg) > 0
    /\ IsOperator(ts, GroupClose(ts, i, neg) + 1, BinaryOpNames)
    /\ PrimaryLen(ts, GroupClose(ts, i, neg) + 2, neg) > 0
    /\ GroupClose(ts, i, neg) + 1
         + PrimaryLen(ts, GroupClose(ts, i, neg) + 2, neg) = Len(ts)

\* BinaryOp(op2, BinaryOp(op1, a, b), c)
GroupTree(ts, i, neg) ==
    BinaryExpr(ts[GroupClose(ts, i, neg) + 1].s,
               BinaryExpr(ts[ChainB(ts, i + 1, neg) - 1].s,
                          PrimaryTree(ts, i + 1),
                          PrimaryTree(ts, ChainB(ts, i + 1, neg))),
               PrimaryTree(ts, GroupClose(ts, i, neg) + 2))

\* The tokens of the first line of the input.
FirstLine == LineTokens(NewTokenReader(tr.buf))

\* Program is about to read a first line <n> PRINT <tokens>.
AtFirstPrint ==
    /\ tr.pos = 0
    /\ pc = "program"
    /\ Len(FirstLine) > 2
    /\ FirstLine[1].t = IntegerToken
    /\ FirstLine[2].t = KeywordToken
    /\ FirstLine[2].s = KwPRINT

\* The store that holds the one line n PRINT e.
OnePrint(n, e) == <<Line(n, PrintStmt(<<e>>))>>

Sum1916 ==
    BinaryExpr(OpPlus, ValueExpr(IntVal(12)),
               BinaryExpr(OpTimes, ValueExpr(IntVal(34)),
                          ValueExpr(IntVal(56))))

Product2576 ==
    BinaryExpr(OpTimes,
               BinaryExpr(OpPlus, ValueExpr(IntVal(12)),
                          ValueExpr(IntVal(34))),
               ValueExpr(IntVal(56)))

\* PRINT of the two expressions of the tests writes 1916 and 2576.
PrintsTestValues ==
    /\ pc = "run" /\ line'.Stmt = PrintStmt(<<Sum1916>>) =>
           W' = <<"1", "9", "1", "6", NL>>
    /\ pc = "run" /\ line'.Stmt = PrintStmt(<<Product2576>>) =>
           W' = <<"2", "5", "7", "6", NL>>

\* The statement of C10 for primaries that may be negations.
CompilesAs(neg) ==
    /\ AtFirstPrint /\ IsChain(FirstLine, 3, Len(FirstLine), neg) =>
           Code' = OnePrint(FirstLine[1].n, ChainTree(FirstLine, 3, neg))
    /\ AtFirstPrint /\ IsGroup(FirstLine, 3, neg) =>
           Code' = OnePrint(FirstLine[1].n, GroupTree(FirstLine, 3, neg))

-----------------------------------------------------------------------------
(* Properties of the scanner.                                             *)

\* A reader of the input that has consumed its first p characters.
ReaderAt(p) == [NewTokenReader(tr.buf) EXCEPT !.pos = p]

\* ReadToken at p gives the operator name and has consumed n characters.
ScansOperator(p, name, n) ==
    /\ ReadToken(ReaderAt(p)).t = OperatorToken
    /\ ReadToken(ReaderAt(p)).s = name
    /\ ReadToken(ReaderAt(p)).tr.pos = p + n

\* C11: ReadToken recognizes the operators of two characters with one
\* character of lookahead: at <=, <> and >= it returns that one operator, and
\* at < or > followed by any other character it returns the operator of one
\* character and leaves the character after it as the next one to be read.
TwoCharacterOperators ==
    \A p \in 0..(Len(tr.buf) - 2) :
        /\ tr.buf[p + 1] = "<" /\ tr.buf[p + 2] = "=" =>
               ScansOperator(p, OpLe, 2)
        /\ tr.buf[p + 1] = "<" /\ tr.buf[p + 2] = ">" =>
               ScansOperator(p, OpNe, 2)
        /\ tr.buf[p + 1] = ">" /\ tr.buf[p + 2] = "=" =>
               ScansOperator(p, OpGe, 2)
        /\ tr.buf[p + 1] = "<" /\ tr.buf[p + 2] \notin {"=", ">"} =>
               ScansOperator(p, OpLt, 1)
        /\ tr.buf[p + 1] = ">" /\ tr.buf[p + 2] # "=" =>
               ScansOperator(p, OpGt, 1)

\* The statement of the numbered line that Program is about to compile, as
\* the compiler returns it.
Entered == CompileStatement(First.tr, TRUE)

\* Program is about to read a line that fails to compile.
AtFailingLine ==
    /\ pc = "program"
    /\ ~Start.eof
    /\ \/ First.t = IntegerToken /\ ~Entered.ok
       \/ First.t = KeywordToken /\ First.s \notin Commands /\ ~Typed.ok
       \/ First.t \notin {IntegerToken, KeywordToken}

\* The characters of the input up to and including the first end of line
\* after the first p.
LineEnd(p) ==
    CHOOSE i \in (p + 1)..Len(tr.buf) :
        /\ tr.buf[i] = NL
        /\ \A j \in (p + 1)..(i - 1) : tr.buf[j] # NL

\* C12: for every input line that fails to compile, the drain loop of Error
\* ends having consumed exactly the rest of that line, its end of line
\* included, with no token kept from a peek, so that nothing of the line is
\* stored or executed and the next line is read as if the failed one had not
\* been entered.
ErrorDrainsTheLine ==
    [][AtFailingLine =>
           /\ pc' = "program"
           /\ tr'.pos = LineEnd(Start.tr.pos)
           /\ tr'.AtEOL
           /\ ~tr'.peeked
           /\ ErrW' # << >>
           /\ W' = << >>
           /\ UNCHANGED <<Code, Vars, stk, fs>>]_vars

-----------------------------------------------------------------------------
(* Properties of the variables and of the statements kept.                *)

\* C13: in every reachable state each variable whose name ends in $ holds a
\* string and each one whose name ends in % holds an integer; no variable
\* holds a boolean and none has a name without one of the two suffixes.
VariablesKeepTheirTag ==
    \A name \in DOMAIN Vars :
        /\ Suffix(name) \in {"$", "%"}
        /\ Suffix(name) = "$" => Vars[name].tag = "string"
        /\ Suffix(name) = "%" => Vars[name].tag = "int"
        /\ Vars[name].tag # "bool"

\* A Run has assigned 1 to A% and has then been refused the assignment of a
\* string to it.
RefusedAssignment ==
    /\ Vars = Store(NewVars, NameA, IntVal(1))
    /\ line.Number # 0
    /\ line.Stmt = AssignStmt(NameA, ValueExpr(StrVal(<<"x">>)))
    /\ ErrW = <<Msg("basic: error: expected an integer value")>>

\* stmt is a statement of one of the nine variants, and so are its branches.
RECURSIVE IsStatement(_)
IsStatement(stmt) ==
    /\ stmt.k \in {"EndStmt", "GoSubStmt", "ReturnStmt", "GotoStmt",
                   "RemStmt", "AssignStmt", "PrintStmt", "IfThenStmt",
                   "IfGotoStmt"}
    /\ stmt.k = "IfThenStmt" =>
           /\ IsStatement(stmt.Then)
           /\ stmt.Else = NilStmt \/ IsStatement(stmt.Else)

\* C14: every line of the program store carries a statement of one of the
\* nine variants, never an absent one, and so does every statement typed
\* without a number that is handed to Execute; a line or command that is
\* only FOR, NEXT, WHILE, WEND or INPUT stores nothing and executes nothing.
EveryStatementPresent ==
    /\ \A i \in DOMAIN Code : IsStatement(Code[i].Stmt)
    /\ AtImmediate => IsStatement(Typed.v)

=============================================================================
